---- MODULE Spec2Model ----
(***************************************************************************)
(* Model of tools/kwboot.c: the Xmodem block transfer (kwboot_xmodem,      *)
(* kwboot_xm_sendblock, kwboot_xm_makeblock), the BootROM handshake        *)
(* (kwboot_bootmsg), the header patch (kwboot_img_patch_hdr), the terminal *)
(* relay (kwboot_terminal) and the stages of main, over a serial channel   *)
(* whose writes, reads and reply bytes are chosen by the environment.      *)
(* Each part has its own specification; the variables of the other parts   *)
(* stay as they are.                                                       *)
(***************************************************************************)
EXTENDS Integers, Sequences, FiniteSets, TLC

(* ------------------------------------------------------------------ *)
(* Program constants                                                    *)
(* ------------------------------------------------------------------ *)
SOH == 1
EOT == 4
ACK == 6
NAK == 21
CAN == 24

\* sizeof(block->data)
blksz == 128

\* sizeof(struct kwboot_block), PACKED
BlockSize == 132

\* the budget of the older sender (kwboot_xmodem_send)
RetriesOld == 15

\* retries = 16 in kwboot_xm_sendblock
Retries == 16

(* ------------------------------------------------------------------ *)
(* Bounds of the model                                                  *)
(* ------------------------------------------------------------------ *)
\* sources of the general specification have at most MaxBlocks blocks
MaxBlocks == 3

\* the long sources of SpecWrap have up to WrapBlocks blocks
WrapBlocks == 257

\* byte patterns the image content is drawn from are 0..MaxPattern
MaxPattern == 1

(* ------------------------------------------------------------------ *)
(* The image (_data, size) handed to kwboot_xmodem                      *)
(* ------------------------------------------------------------------ *)
\* byte i (0-based) of the image with content pattern p:
\* p = 0 is all 0xFF, larger p give varying bytes (zero bytes included)
ImgByte(p, i) == (255 + p * (3 * i + 2)) % 256

Sizes ==
    {k * blksz + r : k \in 0..(MaxBlocks - 1), r \in {0, 1, blksz - 1}}
        \cup {MaxBlocks * blksz}

WrapSizes == {(WrapBlocks - 1) * blksz + 1}

\* a reply byte that is none of ACK, NAK, CAN ('C' of Xmodem-CRC)
ReplyBytes == {ACK, NAK, CAN, 67}

\* values an uninitialized char c of kwboot_xm_sendblock may hold
IndeterminateChar == {0, ACK, NAK, CAN}

\* values the never written block.soh may hold
IndeterminateSoh == {0, SOH}

VARIABLES
    image,      \* [size, pat]: the source given to kwboot_xmodem
    data,       \* kwboot_xmodem: offset of data into the image
    size,       \* kwboot_xmodem: bytes of the image left
    pnum,       \* kwboot_xmodem: int pnum
    n,          \* kwboot_xmodem: result of kwboot_xm_makeblock
    block,      \* kwboot_xmodem: struct kwboot_block block
    retries,    \* kwboot_xm_sendblock: int retries
    c,          \* kwboot_xm_sendblock: char c
    rc,         \* return code of kwboot_xmodem
    errno,      \* errno
    pc,         \* position: "make", "send", "recv", "eot", "done"
    nsent,      \* transmissions of the block at offset data so far
    txFrames,   \* distinct frames transmitted for the block at offset data
    cleanBlocks,\* number of blocks transmitted, as long as every send has
                \* succeeded and every reply byte has been ACK; -1 afterwards
    link,       \* "idle": no frame transmitted yet, "awaiting": the latest
                \* transmission has no reply yet, "answered": it has one
    lastReply,  \* the reply byte to the latest transmission, 0 without one
    fault,      \* channel error met for the current block (or the EOT):
                \* "none", "send", "recv", "eot"
    sentEOT,    \* number of EOT bytes transmitted
    sentCAN,    \* number of CAN bytes transmitted
    earlierNak, \* some block before the current one was answered NAK
    unacked     \* kwboot_xm_sendblock returned 0 for some block without an
                \* ACK read in reply to the latest transmission of it

xmVars == <<image, data, size, pnum, n, block, retries, c, rc, errno, pc,
            nsent, txFrames, cleanBlocks, link, lastReply, fault, sentEOT,
            sentCAN, earlierNak, unacked>>

VARIABLES
    msg,        \* kwboot_bootmsg: the 8-byte wake pattern to send
    bpc,        \* kwboot_bootmsg position: "flush", "send", "recv", "done"
    brc,        \* kwboot_bootmsg: int rc
    bc,         \* kwboot_bootmsg: char c
    attempts,   \* iterations of the loop of kwboot_bootmsg begun so far
    bres,       \* how the latest step of the handshake ended: "none",
                \* "flushfail", "sendfail", "timeout", "error", "byte"
    flushed,    \* tcflush calls since the latest kwboot_tty_send
    bsent,      \* wake patterns handed to the channel
    bwire,      \* the bytes of the latest wake pattern sent, or <<>>
    delays      \* usleep calls made

bootVars == <<msg, bpc, brc, bc, attempts, bres, flushed, bsent, bwire,
              delays>>

VARIABLES
    hdr,        \* kwboot_img_patch_hdr: the bytes hdr = img points to
    orig,       \* the bytes of the image before the first patch
    after1,     \* the bytes of the image after the first patch, or <<>>
    hrcs,       \* the return codes of the calls of kwboot_img_patch_hdr
    herrno      \* errno as set by kwboot_img_patch_hdr

hdrVars == <<hdr, orig, after1, hrcs, herrno>>

VARIABLES
    tpc,        \* kwboot_terminal position: "loop", or how the loop was
                \* left: "quit", "error", "selectfail"
    trc,        \* kwboot_terminal: int rc
    qs,         \* kwboot_terminal: int s, the match counter
    buf,        \* kwboot_term_pipe: the chunk read from the operator last
    treads,     \* calls of kwboot_term_pipe made
    lastTyped,  \* the last byte read from the operator so far, 0 if none
    seen,       \* the escape pair has occurred in the bytes read from the
                \* operator so far
    forwarded,  \* bytes of the operator written to the channel
    matched     \* the match counter kept byte by byte over the bytes read
                \* from the operator: one more on a byte equal to
                \* quit[matched], 0 on any other byte

termVars == <<tpc, trc, qs, buf, treads, lastTyped, seen, forwarded,
              matched>>

VARIABLES
    opt,        \* main: what the options set: bootmsg ("none", "boot" or
                \* "debug"), imgpath given, patch, term
    mpc,        \* main position: the stage to call next, or "exit"
    mapped,     \* main: img is not NULL
    msize,      \* main: size_t size, the length of the mapped image
    rv,         \* main: int rv
    mrc,        \* main: int rc
    merrno,     \* errno as left by the stages of main
    stages      \* the stages main has called, with their outcomes

mainVars == <<opt, mpc, mapped, msize, rv, mrc, merrno, stages>>

vars == <<xmVars, bootVars, hdrVars, termVars, mainVars>>

\* the variables outside the block transfer
notXm == <<bootVars, hdrVars, termVars, mainVars>>

\* the variables outside the handshake
notBoot == <<xmVars, hdrVars, termVars, mainVars>>

\* the variables outside the header patch
notHdr == <<xmVars, bootVars, termVars, mainVars>>

\* the variables outside the terminal relay
notTerm == <<xmVars, bootVars, hdrVars, mainVars>>

\* the variables outside main
notMain == <<xmVars, bootVars, hdrVars, termVars>>

(* ------------------------------------------------------------------ *)
(* Pure functions                                                       *)
(* ------------------------------------------------------------------ *)
\* ~x on a uint8_t
Not8(x) == 255 - x

\* the loop "for (i = 0, csum = 0; i < n; i++) csum += data[i]" on a
\* uint8_t csum: the sum of d[lo..hi] with every addition taken mod 256
\* (the additions are grouped by halves to keep the evaluation shallow)
RECURSIVE Csum8(_, _, _)
Csum8(d, lo, hi) ==
    IF lo > hi THEN 0
    ELSE IF lo = hi THEN d[lo] % 256
    ELSE LET mid == (lo + hi) \div 2
         IN  (Csum8(d, lo, mid) + Csum8(d, mid + 1, hi)) % 256

\* kwboot_xm_makeblock copying from one byte behind data
kwboot_xm_makeblock_shift(blk, img, off, sz, pn) ==
    LET cnt == IF sz < blksz THEN sz ELSE blksz
        d   == [i \in 1..blksz |->
                  IF i <= cnt THEN ImgByte(img.pat, off + i) ELSE 0]
    IN  [block |-> [soh   |-> blk.soh,
                    pnum  |-> pn % 256,
                    _pnum |-> Not8(pn % 256),
                    data  |-> d,
                    csum  |-> Csum8(d, 1, cnt)],
         n     |-> cnt]

\* kwboot_xm_makeblock without the memset of the padding
kwboot_xm_makeblock_nopad(blk, img, off, sz, pn) ==
    LET cnt == IF sz < blksz THEN sz ELSE blksz
        d   == [i \in 1..blksz |->
                  IF i <= cnt THEN ImgByte(img.pat, off + i - 1)
                  ELSE blk.data[i]]
    IN  [block |-> [soh   |-> blk.soh,
                    pnum  |-> pn % 256,
                    _pnum |-> Not8(pn % 256),
                    data  |-> d,
                    csum  |-> Csum8(d, 1, cnt)],
         n     |-> cnt]

\* kwboot_xm_makeblock with a sequence number that wraps 255 -> 1
kwboot_xm_makeblock_skip0(blk, img, off, sz, pn) ==
    LET cnt == IF sz < blksz THEN sz ELSE blksz
        d   == [i \in 1..blksz |->
                  IF i <= cnt THEN ImgByte(img.pat, off + i - 1) ELSE 0]
        seq == ((pn - 1) % 255) + 1
    IN  [block |-> [soh   |-> blk.soh,
                    pnum  |-> seq,
                    _pnum |-> Not8(seq),
                    data  |-> d,
                    csum  |-> Csum8(d, 1, cnt)],
         n     |-> cnt]

\* kwboot_xm_makeblock: fills every field of blk but soh, returns n
kwboot_xm_makeblock(blk, img, off, sz, pn) ==
    LET cnt == IF sz < blksz THEN sz ELSE blksz
        d   == [i \in 1..blksz |->
                  IF i <= cnt THEN ImgByte(img.pat, off + i - 1) ELSE 0]
    IN  [block |-> [soh   |-> blk.soh,
                    pnum  |-> pn % 256,
                    _pnum |-> Not8(pn % 256),
                    data  |-> d,
                    csum  |-> Csum8(d, 1, cnt)],
         n     |-> cnt]

\* the bytes of a struct kwboot_block as kwboot_tty_send writes them
Frame(blk) == <<blk.soh, blk.pnum, blk._pnum>> \o blk.data \o <<blk.csum>>

\* the errno values of the older sender (kwboot_xmodem_send)
SendblockErrnoOld(ch, old) ==
    CASE ch = ACK -> old
      [] ch = NAK -> "ECANCELED"
      [] ch = CAN -> "ESHUTDOWN"
      [] OTHER    -> "EPROTO"

\* errno after the switch (c) of kwboot_xm_sendblock
SendblockErrno(ch, old) ==
    CASE ch = ACK -> old
      [] ch = NAK -> "EBADMSG"
      [] ch = CAN -> "ECANCELED"
      [] OTHER    -> "EPROTO"

\* rc = c == ACK ? 0 : -1
SendblockRc(ch) == IF ch = ACK THEN 0 ELSE -1

(* ------------------------------------------------------------------ *)
(* Initial states                                                       *)
(* ------------------------------------------------------------------ *)
InitWith(S, P) ==
    /\ image \in [size : S, pat : P]
    /\ data = 0
    /\ size = image.size
    /\ pnum = 1
    /\ n = 0
    /\ block = [soh |-> 0, pnum |-> 0, _pnum |-> 0,
                data |-> [i \in 1..blksz |-> 0], csum |-> 0]
    /\ retries = 0
    /\ c = 0
    /\ rc = 0
    /\ errno = "0"
    /\ pc = "make"
    /\ nsent = 0
    /\ txFrames = {}
    /\ cleanBlocks = 0
    /\ link = "idle"
    /\ lastReply = 0
    /\ fault = "none"
    /\ sentEOT = 0
    /\ sentCAN = 0
    /\ earlierNak = FALSE
    /\ unacked = FALSE

\* kwboot_bootmsg is not running
BootIdle ==
    /\ msg = <<>>
    /\ bpc = "done"
    /\ brc = 0
    /\ bc = 0
    /\ attempts = 0
    /\ bres = "none"
    /\ flushed = 0
    /\ bsent = 0
    /\ bwire = <<>>
    /\ delays = 0

\* no image is being patched
HdrIdle ==
    /\ hdr = <<>>
    /\ orig = <<>>
    /\ after1 = <<>>
    /\ hrcs = <<>>
    /\ herrno = "0"

\* kwboot_terminal is not running
TermIdle ==
    /\ tpc = "idle"
    /\ trc = 0
    /\ qs = 0
    /\ buf = <<>>
    /\ treads = 0
    /\ lastTyped = 0
    /\ seen = FALSE
    /\ forwarded = 0
    /\ matched = 0

\* main is not followed
MainIdle ==
    /\ opt = [bootmsg |-> "none", imgpath |-> FALSE, patch |-> FALSE,
              term |-> FALSE]
    /\ mpc = "idle"
    /\ mapped = FALSE
    /\ msize = 0
    /\ rv = 1
    /\ mrc = 0
    /\ merrno = "0"
    /\ stages = <<>>

\* kwboot_xmodem is not running
XmIdle ==
    /\ image = [size |-> 0, pat |-> 0]
    /\ data = 0
    /\ size = 0
    /\ pnum = 1
    /\ n = 0
    /\ block = [soh |-> 0, pnum |-> 0, _pnum |-> 0,
                data |-> [i \in 1..blksz |-> 0], csum |-> 0]
    /\ retries = 0
    /\ c = 0
    /\ rc = 0
    /\ errno = "0"
    /\ pc = "done"
    /\ nsent = 0
    /\ txFrames = {}
    /\ cleanBlocks = 0
    /\ link = "idle"
    /\ lastReply = 0
    /\ fault = "none"
    /\ sentEOT = 0
    /\ sentCAN = 0
    /\ earlierNak = FALSE
    /\ unacked = FALSE

Init == InitWith(Sizes, 0..MaxPattern) /\ BootIdle /\ HdrIdle
        /\ TermIdle /\ MainIdle

InitWrap == InitWith(WrapSizes, {MaxPattern}) /\ BootIdle /\ HdrIdle
        /\ TermIdle /\ MainIdle

(* ------------------------------------------------------------------ *)
(* Actions                                                              *)
(* ------------------------------------------------------------------ *)
\* kwboot_xm_sendblock has left its loop with c = ch and retries = left;
\* it returns to kwboot_xmodem, which leaves on failure and advances data
\* otherwise (the locals c and retries of the finished call are then gone)
SendblockReturn(ch, left, err) ==
    /\ rc' = SendblockRc(ch)
    /\ errno' = SendblockErrno(ch, err)
    /\ IF SendblockRc(ch) # 0
       THEN /\ pc' = "done"
            /\ c' = ch
            /\ retries' = left
            /\ UNCHANGED <<data, size, earlierNak, nsent, txFrames, unacked>>
       ELSE /\ pc' = "make"
            /\ c' = 0
            /\ retries' = 0
            /\ nsent' = 0
            /\ txFrames' = {}
            /\ data' = data + n
            /\ size' = size - n
            /\ earlierNak' = (earlierNak \/ left < Retries)
            /\ unacked' = (unacked \/ fault' # "none")

\* one iteration of the loop of kwboot_xmodem up to the call of
\* kwboot_xm_sendblock: a fresh struct kwboot_block, whose soh no statement
\* writes, and kwboot_xm_makeblock(&block, data, size, pnum++).  The result
\* n is never negative, so the label can: (the only place that sends CAN)
\* is not reached.
XmMakeblock ==
    /\ pc = "make"
    /\ LET r == kwboot_xm_makeblock(block, image, data, size, pnum)
       IN  \E s \in IndeterminateSoh, g \in IndeterminateChar :
            /\ block' = [r.block EXCEPT !.soh = s]
            /\ n' = r.n
            /\ pnum' = pnum + 1
            /\ IF r.n = 0
               THEN /\ pc' = "eot"
                    /\ UNCHANGED <<retries, c>>
               ELSE /\ pc' = "send"
                    /\ retries' = Retries
                    /\ c' = g
    /\ fault' = "none"
    /\ UNCHANGED <<image, data, size, rc, errno, nsent, txFrames,
                   cleanBlocks, link, lastReply, sentEOT, sentCAN,
                   earlierNak, unacked>>
    /\ UNCHANGED notXm

\* kwboot_tty_send(fd, block, sizeof(*block)) succeeds
TtySendOk ==
    /\ pc = "send"
    /\ nsent' = nsent + 1
    /\ txFrames' = txFrames \cup {Frame(block)}
    /\ cleanBlocks' = IF cleanBlocks >= 0 /\ nsent = 0
                      THEN cleanBlocks + 1 ELSE cleanBlocks
    /\ link' = "awaiting"
    /\ lastReply' = 0
    /\ pc' = "recv"
    /\ UNCHANGED <<image, data, size, pnum, n, block, retries, c, rc,
                   errno, fault, sentEOT, sentCAN, earlierNak, unacked>>
    /\ UNCHANGED notXm

\* kwboot_tty_send fails: rc = -1, break
TtySendFail ==
    /\ pc = "send"
    /\ fault' = "send"
    /\ cleanBlocks' = -1
    /\ SendblockReturn(c, retries, "EIO")
    /\ UNCHANGED <<image, pnum, n, block, link, lastReply, sentEOT,
                   sentCAN>>
    /\ UNCHANGED notXm

\* the reply handling with a loop condition that tests c == NAK alone and
\* forgets the transmission that was answered
TtyRecvByte_unbounded ==
    /\ pc = "recv"
    /\ UNCHANGED <<image, pnum, n, block, fault, sentEOT, sentCAN>>
    /\ \E r \in ReplyBytes :
        /\ link' = "answered"
        /\ lastReply' = r
        /\ cleanBlocks' = IF r = ACK THEN cleanBlocks ELSE -1
        /\ IF r = NAK
           THEN /\ pc' = "send"
                /\ c' = r
                /\ nsent' = 0
                /\ txFrames' = {}
                /\ UNCHANGED <<data, size, rc, errno, earlierNak, retries,
                               unacked>>
           ELSE SendblockReturn(r, retries, errno)
    /\ UNCHANGED notXm

\* kwboot_tty_recv(fd, &c, 1, ..) stores a reply byte; then the loop
\* condition c == NAK && retries-- > 0
TtyRecvByte ==
    /\ pc = "recv"
    /\ UNCHANGED <<image, pnum, n, block, fault, sentEOT, sentCAN>>
    /\ \E r \in ReplyBytes :
        /\ link' = "answered"
        /\ lastReply' = r
        /\ cleanBlocks' = IF r = ACK THEN cleanBlocks ELSE -1
        /\ IF r = NAK
           THEN IF retries > 0
                THEN /\ pc' = "send"
                     /\ c' = r
                     /\ retries' = retries - 1
                     /\ UNCHANGED <<data, size, rc, errno, earlierNak,
                                    nsent, txFrames, unacked>>
                ELSE SendblockReturn(r, retries - 1, errno)
           ELSE SendblockReturn(r, retries, errno)
    /\ UNCHANGED notXm

\* kwboot_tty_recv fails (select or read error, nothing to read): break
TtyRecvFail ==
    /\ pc = "recv"
    /\ fault' = "recv"
    /\ cleanBlocks' = -1
    /\ SendblockReturn(c, retries, "EIO")
    /\ UNCHANGED <<image, pnum, n, block, link, lastReply, sentEOT,
                   sentCAN>>
    /\ UNCHANGED notXm

\* rc = kwboot_tty_send_char(tty, EOT) succeeds
SendEotOk ==
    /\ pc = "eot"
    /\ sentEOT' = sentEOT + 1
    /\ rc' = 0
    /\ pc' = "done"
    /\ UNCHANGED <<image, data, size, pnum, n, block, retries, c, errno,
                   nsent, txFrames, cleanBlocks, link, lastReply, fault,
                   sentCAN, earlierNak, unacked>>
    /\ UNCHANGED notXm

\* rc = kwboot_tty_send_char(tty, EOT) fails
SendEotFail ==
    /\ pc = "eot"
    /\ rc' = -1
    /\ errno' = "EIO"
    /\ fault' = "eot"
    /\ cleanBlocks' = -1
    /\ pc' = "done"
    /\ UNCHANGED <<image, data, size, pnum, n, block, retries, c, nsent,
                   txFrames, link, lastReply, sentEOT, sentCAN, earlierNak,
                   unacked>>
    /\ UNCHANGED notXm



Next ==
    \/ XmMakeblock
    \/ TtySendOk
    \/ TtySendFail
    \/ TtyRecvByte
    \/ TtyRecvFail
    \/ SendEotOk
    \/ SendEotFail

Spec == Init /\ [][Next]_vars

SpecWrap == InitWrap /\ [][Next]_vars

\* every step of the transfer is a call that returns: write and tcdrain of
\* a frame, select with a timeout followed by a read of a non-blocking
\* descriptor; so a transfer that can take a step takes one
SpecLive == Init /\ [][Next]_vars /\ WF_vars(Next)

(* ------------------------------------------------------------------ *)
(* The handshake: kwboot_bootmsg                                        *)
(* ------------------------------------------------------------------ *)
\* static unsigned char kwboot_msg_boot[]
kwboot_msg_boot == <<187, 17, 34, 51, 68, 85, 102, 119>>

\* static unsigned char kwboot_msg_debug[]
kwboot_msg_debug == <<221, 17, 34, 51, 68, 85, 102, 119>>

\* the loop of kwboot_bootmsg is left alone once it has begun this many
\* iterations
MaxAttempts == 4

\* the bytes the target may answer a wake pattern with
BootReplies == {NAK, ACK, 0}

\* the ways kwboot_tty_recv fails: select ran out of time and the read of
\* the non-blocking descriptor found nothing, or select or read failed
RecvFailures == {"timeout", "error"}

\* the condition of the do-while of kwboot_bootmsg with the ready byte
\* taken for ACK
BootmsgAgain_ack(r, ch) == r # 0 \/ ch # ACK

\* } while (rc || c != NAK);
BootmsgAgain(r, ch) == r # 0 \/ ch # NAK

\* kwboot_bootmsg(tty, msg) has been entered
InitBoot ==
    /\ XmIdle
    /\ HdrIdle
    /\ TermIdle
    /\ MainIdle
    /\ msg \in {kwboot_msg_boot, kwboot_msg_debug}
    /\ bpc = "flush"
    /\ brc = 0
    /\ bc = 0
    /\ attempts = 1
    /\ bres = "none"
    /\ flushed = 0
    /\ bsent = 0
    /\ bwire = <<>>
    /\ delays = 0

\* rc = tcflush(tty, TCIOFLUSH) returns 0
TcflushOk ==
    /\ bpc = "flush"
    /\ brc' = 0
    /\ flushed' = flushed + 1
    /\ bres' = "none"
    /\ bpc' = "send"
    /\ UNCHANGED <<msg, bc, attempts, bsent, bwire, delays>>
    /\ UNCHANGED notBoot

\* rc = tcflush(tty, TCIOFLUSH) fails: if (rc) break;
TcflushFail ==
    /\ bpc = "flush"
    /\ brc' = -1
    /\ flushed' = flushed + 1
    /\ bres' = "flushfail"
    /\ bpc' = "done"
    /\ UNCHANGED <<msg, bc, attempts, bsent, bwire, delays>>
    /\ UNCHANGED notBoot

\* rc = kwboot_tty_send(tty, msg, 8) returns 0
BootSendOk ==
    /\ bpc = "send"
    /\ brc' = 0
    /\ bsent' = bsent + 1
    /\ bwire' = msg
    /\ flushed' = 0
    /\ bpc' = "recv"
    /\ UNCHANGED <<msg, bc, attempts, bres, delays>>
    /\ UNCHANGED notBoot

\* kwboot_tty_send fails and the retry goes straight back to the send
BootSendFail_noflush ==
    /\ bpc = "send"
    /\ brc' = -1
    /\ bres' = "sendfail"
    /\ delays' = delays + 1
    /\ flushed' = 0
    /\ BootmsgAgain(-1, bc)
    /\ attempts < MaxAttempts
    /\ attempts' = attempts + 1
    /\ bpc' = "send"
    /\ UNCHANGED <<msg, bc, bsent, bwire>>
    /\ UNCHANGED notBoot

\* rc = kwboot_tty_send(tty, msg, 8) fails: usleep(...); continue; which
\* jumps to the loop condition, true because rc is not 0
BootSendFail ==
    /\ bpc = "send"
    /\ brc' = -1
    /\ bres' = "sendfail"
    /\ delays' = delays + 1
    /\ flushed' = 0
    /\ BootmsgAgain(-1, bc)
    /\ attempts < MaxAttempts
    /\ attempts' = attempts + 1
    /\ bpc' = "flush"
    /\ UNCHANGED <<msg, bc, bsent, bwire>>
    /\ UNCHANGED notBoot

\* rc = kwboot_tty_recv(tty, &c, 1, KWBOOT_MSG_RSP_TIMEO) reads one byte;
\* then the loop condition
BootRecvByte ==
    /\ bpc = "recv"
    /\ \E r \in BootReplies :
        /\ brc' = 0
        /\ bc' = r
        /\ bres' = "byte"
        /\ IF BootmsgAgain(0, r)
           THEN /\ attempts < MaxAttempts
                /\ attempts' = attempts + 1
                /\ bpc' = "flush"
           ELSE /\ bpc' = "done"
                /\ UNCHANGED attempts
    /\ UNCHANGED <<msg, flushed, bsent, bwire, delays>>
    /\ UNCHANGED notBoot

\* kwboot_tty_recv returns -1, after a timeout as after a failed select or
\* read; c is left as it was and the loop condition is true
BootRecvFail ==
    /\ bpc = "recv"
    /\ \E why \in RecvFailures :
        /\ brc' = -1
        /\ bres' = why
    /\ BootmsgAgain(-1, bc)
    /\ attempts < MaxAttempts
    /\ attempts' = attempts + 1
    /\ bpc' = "flush"
    /\ UNCHANGED <<msg, bc, flushed, bsent, bwire, delays>>
    /\ UNCHANGED notBoot

NextBoot ==
    \/ TcflushOk
    \/ TcflushFail
    \/ BootSendOk
    \/ BootSendFail
    \/ BootRecvByte
    \/ BootRecvFail

SpecBoot == InitBoot /\ [][NextBoot]_vars

(* ------------------------------------------------------------------ *)
(* The header patch: kwboot_img_patch_hdr                               *)
(* ------------------------------------------------------------------ *)
\* sizeof(bhr_t), the main header of a kwbimage
hdrsz == 32

\* sizeof(struct kwb_header), main header and extended header
KwbHeaderSize == 512

\* the fields of bhr_t the patch reads or writes, as 1-based positions of
\* their first byte in the packed header
bhr == [blockid |-> 1, nandeccmode |-> 2, nandpagesize |-> 3,
        srcaddr |-> 13, ext |-> 31, checkSum |-> 32]

IBR_HDR_UART_ID == 105

IBR_HDR_NAND_ID == 139

IBR_HDR_SPI_ID == 90

IBR_HDR_ECC_DISABLED == 3

\* the bytes of a uint32_t in memory, least significant first
LE32(v) == <<v % 256, (v \div 256) % 256, (v \div 65536) % 256,
             (v \div 16777216) % 256>>

\* kwboot_img_csum8(data, size): the uint8_t sum of the first sz bytes
kwboot_img_csum8(d, sz) == Csum8(d, 1, sz)

\* the header with its fields rewritten for UART boot, checkSum not yet
PatchedFields(im) ==
    LET src == LE32(IF im[bhr.ext] # 0 THEN KwbHeaderSize ELSE hdrsz)
    IN  [i \in 1..Len(im) |->
            IF i = bhr.blockid THEN IBR_HDR_UART_ID
            ELSE IF i = bhr.nandeccmode THEN IBR_HDR_ECC_DISABLED
            ELSE IF i \in {bhr.nandpagesize, bhr.nandpagesize + 1} THEN 0
            ELSE IF i \in bhr.srcaddr..(bhr.srcaddr + 3)
                 THEN src[i - bhr.srcaddr + 1]
            ELSE im[i]]

\* the patch with the new checkSum taken as the sum of the whole header,
\* old checkSum byte included
kwboot_img_patch_hdr_nosub(im) ==
    IF Len(im) < hdrsz
    THEN [rc |-> -1, errno |-> "EINVAL", img |-> im]
    ELSE LET csum == (kwboot_img_csum8(im, hdrsz) + 256
                        - im[bhr.checkSum]) % 256
         IN  IF csum # im[bhr.checkSum]
             THEN [rc |-> -1, errno |-> "EINVAL", img |-> im]
             ELSE IF im[bhr.blockid] = IBR_HDR_UART_ID
             THEN [rc |-> 0, errno |-> "0", img |-> im]
             ELSE LET h == PatchedFields(im)
                  IN  [rc |-> 0, errno |-> "0",
                       img |-> [h EXCEPT ![bhr.checkSum] =
                                    kwboot_img_csum8(h, hdrsz) % 256]]

\* kwboot_img_patch_hdr(img, size) on the bytes im of the image: the
\* return code, the errno it sets ("0": none) and the bytes afterwards
kwboot_img_patch_hdr(im) ==
    IF Len(im) < hdrsz
    THEN [rc |-> -1, errno |-> "EINVAL", img |-> im]
    ELSE LET csum == (kwboot_img_csum8(im, hdrsz) + 256
                        - im[bhr.checkSum]) % 256
         IN  IF csum # im[bhr.checkSum]
             THEN [rc |-> -1, errno |-> "EINVAL", img |-> im]
             ELSE IF im[bhr.blockid] = IBR_HDR_UART_ID
             THEN [rc |-> 0, errno |-> "0", img |-> im]
             ELSE LET h == PatchedFields(im)
                  IN  [rc |-> 0, errno |-> "0",
                       img |-> [h EXCEPT ![bhr.checkSum] =
                                    (kwboot_img_csum8(h, hdrsz) + 256
                                        - csum) % 256]]

\* the patch is applied to one image at most this many times
MaxPatches == 2

\* a header with the given tag, ECC mode, page size, ext flag and filler
\* bytes, whose checkSum byte is the sum of the bytes before it plus d
MkHdr(b, e, pg, x, p, d) ==
    LET h == [i \in 1..hdrsz |->
                IF i = bhr.blockid THEN b
                ELSE IF i = bhr.nandeccmode THEN e
                ELSE IF i = bhr.nandpagesize + 1 THEN pg
                ELSE IF i = bhr.ext THEN x
                ELSE IF i = bhr.checkSum THEN 0
                ELSE ImgByte(p, i)]
    IN  [h EXCEPT ![bhr.checkSum] = (Csum8(h, 1, hdrsz - 1) + d) % 256]

\* the headers the patch is applied to
Headers ==
    {MkHdr(b, e, pg, x, p, d) :
        b \in {IBR_HDR_UART_ID, IBR_HDR_NAND_ID, IBR_HDR_SPI_ID},
        e \in {0, 1}, pg \in {0, 8}, x \in {0, 1}, p \in 0..MaxPattern,
        d \in {0, 1, 128}}

\* images too short to hold a header
ShortImages == {SubSeq(h, 1, hdrsz - 1) : h \in Headers}

\* the image has been mapped, kwboot_img_patch_hdr has not been called
InitPatch ==
    /\ XmIdle
    /\ BootIdle
    /\ TermIdle
    /\ MainIdle
    /\ hdr \in Headers \cup ShortImages
    /\ orig = hdr
    /\ after1 = <<>>
    /\ hrcs = <<>>
    /\ herrno = "0"

\* rc = kwboot_img_patch_hdr(img, size)
PatchHdr ==
    /\ hdr # <<>>
    /\ Len(hrcs) < MaxPatches
    /\ LET r == kwboot_img_patch_hdr(hdr)
       IN  /\ hdr' = r.img
           /\ hrcs' = Append(hrcs, r.rc)
           /\ herrno' = IF r.rc # 0 THEN r.errno ELSE herrno
           /\ after1' = IF hrcs = <<>> THEN r.img ELSE after1
    /\ UNCHANGED orig
    /\ UNCHANGED notHdr

NextPatch == PatchHdr

SpecPatch == InitPatch /\ [][NextPatch]_vars

(* ------------------------------------------------------------------ *)
(* The terminal relay: kwboot_terminal                                  *)
(* ------------------------------------------------------------------ *)
\* char *quit = "\34c", with the 0 that ends the string
quit == <<28, 99, 0>>

\* sizeof(buf) in kwboot_term_pipe
TermBufSize == 128

\* the longest chunk one read of the operator's input returns here
MaxChunk == 3

\* the relay is left alone after this many calls of kwboot_term_pipe
MaxReads == 3

\* the bytes the operator types: the two escape bytes and another one
TermBytes == {28, 99, 97}

\* the chunks read(in, buf, sizeof(buf)) may return
Chunks ==
    UNION {[1..k -> TermBytes] :
            k \in 1..(IF MaxChunk < TermBufSize THEN MaxChunk
                      ELSE TermBufSize)}

\* the loop of kwboot_term_quit from iteration i on, st being *s: every
\* iteration compares *buf, the first byte of the chunk, as buf is never
\* advanced
RECURSIVE TermQuitLoop(_, _, _, _)
TermQuitLoop(b, i, nin, st) ==
    IF i >= nin THEN st
    ELSE IF b[1] = quit[st + 1]
         THEN IF quit[st + 2] = 0
              THEN st + 1
              ELSE TermQuitLoop(b, i + 1, nin, st + 1)
         ELSE TermQuitLoop(b, i + 1, nin, 0)

\* kwboot_term_quit(buf, n, quit, &s): the new *s and the value returned
kwboot_term_quit(b, nin, st) ==
    LET t == TermQuitLoop(b, 0, nin, st)
    IN  [s |-> t, rc |-> IF quit[t + 1] # 0 THEN -1 ELSE 0]

\* the escape pair occurs in the byte sequence w
HasEscape(w) ==
    \E i \in 1..(Len(w) - 1) : w[i] = quit[1] /\ w[i + 1] = quit[2]

\* the match counter st carried over the bytes w[i..], each byte compared
\* in its turn, up to a complete match
RECURSIVE MatchBytes(_, _, _)
MatchBytes(w, i, st) ==
    IF i > Len(w) \/ quit[st + 1] = 0 THEN st
    ELSE MatchBytes(w, i + 1, IF w[i] = quit[st + 1] THEN st + 1 ELSE 0)

\* kwboot_terminal has put the operator's terminal in raw mode and enters
\* its loop: rc = 0; s = 0;
InitTerm ==
    /\ XmIdle
    /\ BootIdle
    /\ HdrIdle
    /\ MainIdle
    /\ tpc = "loop"
    /\ trc = 0
    /\ qs = 0
    /\ buf = <<>>
    /\ treads = 0
    /\ lastTyped = 0
    /\ seen = FALSE
    /\ forwarded = 0
    /\ matched = 0

\* select fails: if (nfds < 0) break; with rc as it is
TermSelectFail ==
    /\ tpc = "loop"
    /\ tpc' = "selectfail"
    /\ UNCHANGED <<trc, qs, buf, treads, lastTyped, seen, forwarded,
                   matched>>
    /\ UNCHANGED notTerm

\* the channel is readable: kwboot_term_pipe(tty, STDOUT_FILENO, NULL,
\* NULL) copies what it reads, or fails in read or write
TermPipeTty ==
    /\ tpc = "loop"
    /\ treads < MaxReads
    /\ treads' = treads + 1
    /\ \E r \in {0, -1} :
        /\ trc' = r
        /\ tpc' = IF r # 0 THEN "error" ELSE "loop"
    /\ UNCHANGED <<qs, buf, lastTyped, seen, forwarded, matched>>
    /\ UNCHANGED notTerm

\* the operator's input is readable and read fails in kwboot_term_pipe
TermPipeInReadFail ==
    /\ tpc = "loop"
    /\ treads < MaxReads
    /\ treads' = treads + 1
    /\ trc' = -1
    /\ tpc' = "error"
    /\ UNCHANGED <<qs, buf, lastTyped, seen, forwarded, matched>>
    /\ UNCHANGED notTerm

\* the operator's input is readable: kwboot_term_pipe(in, tty, quit, &s)
\* reads a chunk, runs kwboot_term_quit on it and, unless that returns 0,
\* writes the chunk to the channel (wok: the writes succeed); then the
\* loop condition quit[s] != 0
TermPipeIn ==
    /\ tpc = "loop"
    /\ treads < MaxReads
    /\ treads' = treads + 1
    /\ \E chunk \in Chunks, wok \in BOOLEAN :
        LET q == kwboot_term_quit(chunk, Len(chunk), qs)
        IN  /\ buf' = chunk
            /\ qs' = q.s
            /\ lastTyped' = chunk[Len(chunk)]
            /\ seen' = (seen \/ HasEscape(<<lastTyped>> \o chunk))
            /\ matched' = MatchBytes(chunk, 1, matched)
            /\ IF q.rc = 0
               THEN /\ trc' = 0
                    /\ tpc' = "quit"
                    /\ UNCHANGED forwarded
               ELSE IF wok
               THEN /\ trc' = 0
                    /\ tpc' = "loop"
                    /\ forwarded' = forwarded + Len(chunk)
               ELSE /\ trc' = -1
                    /\ tpc' = "error"
                    /\ UNCHANGED forwarded
    /\ UNCHANGED notTerm

NextTerm ==
    \/ TermSelectFail
    \/ TermPipeTty
    \/ TermPipeInReadFail
    \/ TermPipeIn

SpecTerm == InitTerm /\ [][NextTerm]_vars

(* ------------------------------------------------------------------ *)
(* The stages of main                                                   *)
(* ------------------------------------------------------------------ *)
\* the option settings that get past the usage checks of main: a wake
\* pattern or terminal mode is asked for, and a patch only with an image
Options ==
    {o \in [bootmsg : {"none", "boot", "debug"}, imgpath : BOOLEAN,
            patch : BOOLEAN, term : BOOLEAN] :
        /\ o.bootmsg # "none" \/ o.term
        /\ o.patch => o.imgpath
        /\ o.imgpath <=> o.bootmsg = "boot"}

\* the stages in the order the handshake is put before the header patch
StageOrder_handshakeFirst ==
    <<"open", "mmap", "bootmsg", "patch", "xmodem", "terminal">>

\* the calls of main in the order of its text: kwboot_open_tty,
\* kwboot_mmap_image, kwboot_img_patch_hdr, kwboot_bootmsg, kwboot_xmodem,
\* kwboot_terminal
StageOrder ==
    <<"open", "mmap", "patch", "bootmsg", "xmodem", "terminal">>

\* the if that guards the call of stage st in main
Wanted(st, o, m) ==
    CASE st = "open" -> TRUE
      [] st = "mmap" -> o.imgpath
      [] st = "patch" -> o.patch
      [] st = "bootmsg" -> o.bootmsg # "none"
      [] st = "xmodem" -> m
      [] st = "terminal" -> o.term

\* the outcomes of a stage: its return code and the errno it leaves
StageResults(st) ==
    CASE st = "open" ->
            {[rc |-> 0, errno |-> "0"], [rc |-> -1, errno |-> "ENOENT"]}
      [] st = "mmap" ->
            {[rc |-> 0, errno |-> "0"], [rc |-> -1, errno |-> "ENOENT"]}
      [] st = "patch" ->
            {[rc |-> 0, errno |-> "0"], [rc |-> -1, errno |-> "EINVAL"]}
      [] st = "bootmsg" ->
            {[rc |-> 0, errno |-> "0"], [rc |-> -1, errno |-> "EIO"]}
      [] st = "xmodem" ->
            {[rc |-> 0, errno |-> "0"]} \cup
            [rc : {-1}, errno : {"EBADMSG", "ECANCELED", "EPROTO", "EIO"}]
      [] st = "terminal" ->
            {[rc |-> 0, errno |-> "0"]} \cup
            [rc : {-1}, errno : {"EINTR", "EIO"}]

\* the lengths of the image files mapped: too short for a header, a
\* header alone, a header and an extended header
ImageSizes == {hdrsz - 1, hdrsz, KwbHeaderSize}

\* a stage outcome after which main goes on although the handshake failed
StageAborts_lax(st, r) ==
    /\ r.rc # 0
    /\ st # "bootmsg"
    /\ ~(st = "terminal" /\ r.errno = "EINTR")

\* the test after the call of stage st that ends in goto out
StageAborts(st, r) ==
    /\ r.rc # 0
    /\ ~(st = "terminal" /\ r.errno = "EINTR")

\* the stage main calls next when it is past position k of the order
RECURSIVE StageAfter(_, _, _)
StageAfter(k, o, m) ==
    IF k >= Len(StageOrder) THEN "exit"
    ELSE IF Wanted(StageOrder[k + 1], o, m) THEN StageOrder[k + 1]
    ELSE StageAfter(k + 1, o, m)

\* the position of stage st in the order
StageIndex(st) == CHOOSE k \in 1..Len(StageOrder) : StageOrder[k] = st

\* main has parsed its options: rv = 1 and kwboot_open_tty comes next
InitMain ==
    /\ XmIdle
    /\ BootIdle
    /\ HdrIdle
    /\ TermIdle
    /\ opt \in Options
    /\ mpc = "open"
    /\ mapped = FALSE
    /\ msize = 0
    /\ rv = 1
    /\ mrc = 0
    /\ merrno = "0"
    /\ stages = <<>>

\* main calls stage st, which ends with one of its outcomes (the patch of
\* an image shorter than a header fails); a failure goes to out: with rv
\* still 1, the end of the last stage sets rv = 0
RunStage(st) ==
    /\ mpc = st
    /\ \E r \in StageResults(st) :
        /\ (st = "patch" /\ msize < hdrsz) => r.rc # 0
        /\ IF st = "mmap" /\ r.rc = 0
           THEN msize' \in ImageSizes
           ELSE UNCHANGED msize
        /\ mrc' = r.rc
        /\ merrno' = IF r.rc # 0 THEN r.errno ELSE merrno
        /\ stages' = Append(stages, [stage |-> st, rc |-> r.rc,
                                     errno |-> r.errno])
        /\ mapped' = IF st = "mmap" THEN r.rc = 0 ELSE mapped
        /\ IF StageAborts(st, r)
           THEN /\ mpc' = "exit"
                /\ UNCHANGED rv
           ELSE /\ mpc' = StageAfter(StageIndex(st), opt, mapped')
                /\ rv' = IF mpc' = "exit" THEN 0 ELSE rv
    /\ UNCHANGED opt
    /\ UNCHANGED notMain

\* tty = kwboot_open_tty(ttypath, B115200)
MainOpenTty == RunStage("open")

\* img = kwboot_mmap_image(imgpath, &size, prot)
MainMmapImage == RunStage("mmap")

\* rc = kwboot_img_patch_hdr(img, size)
MainPatchHdr == RunStage("patch")

\* rc = kwboot_bootmsg(tty, bootmsg)
MainBootmsg == RunStage("bootmsg")

\* rc = kwboot_xmodem(tty, img, size)
MainXmodem == RunStage("xmodem")

\* rc = kwboot_terminal(tty)
MainTerminal == RunStage("terminal")

NextMain ==
    \/ MainOpenTty
    \/ MainMmapImage
    \/ MainPatchHdr
    \/ MainBootmsg
    \/ MainXmodem
    \/ MainTerminal

SpecMain == InitMain /\ [][NextMain]_vars

(* ------------------------------------------------------------------ *)
(* Properties                                                           *)
(* ------------------------------------------------------------------ *)
\* 1-based index of the block at offset data
BlockIndex == data \div blksz + 1

\* ceil(L / 128)
NumBlocks(L) == (L + blksz - 1) \div blksz

\* source bytes 128*(i-1) .. min(128*i, L)-1, then zero padding
ExpectedPayload(img, i) ==
    [j \in 1..blksz |->
        LET k == blksz * (i - 1) + j - 1
        IN  IF k < img.size THEN ImgByte(img.pat, k) ELSE 0]

\* the payload bytes of a transmitted frame
Payload(f) == SubSeq(f, 4, 3 + blksz)

\* the plain sum of d[lo..hi]
RECURSIVE PlainSum(_, _, _)
PlainSum(d, lo, hi) ==
    IF lo > hi THEN 0
    ELSE IF lo = hi THEN d[lo]
    ELSE LET mid == (lo + hi) \div 2
         IN  PlainSum(d, lo, mid) + PlainSum(d, mid + 1, hi)

\* reply bytes that are none of ACK, NAK, CAN
OtherReplies == ReplyBytes \ {ACK, NAK, CAN}

\* C1: with a channel that never fails and a target that answers ACK to
\* every block, each block is transmitted once, block i carries source
\* bytes 128*(i-1) .. min(128*i, L)-1 followed by zero padding and holds at
\* least one source byte, and the transfer ends having transmitted exactly
\* ceil(L/128) blocks (none for L = 0) and then the EOT byte.
C1_AllAckTransfer ==
    cleanBlocks >= 0 =>
        /\ pc = "recv" =>
            /\ nsent = 1
            /\ cleanBlocks = BlockIndex
            /\ BlockIndex <= NumBlocks(image.size)
            /\ blksz * (BlockIndex - 1) < image.size
            /\ Cardinality(txFrames) = 1
            /\ \A f \in txFrames :
                   Payload(f) = ExpectedPayload(image, BlockIndex)
        /\ pc = "done" =>
            /\ cleanBlocks = NumBlocks(image.size)
            /\ sentEOT = 1
            /\ rc = 0
        /\ sentEOT = 1 => pc = "done"

C1_Witness ==
    /\ pc = "done"
    /\ image.size = 2 * blksz
    /\ cleanBlocks = 2
    /\ sentEOT = 1

\* C2 (as claimed): the sequence number of block k is ((k-1) mod 255) + 1,
\* so the block after the one numbered 255 is numbered 1 and no frame
\* carries sequence number 0.
C2_SkipsZero ==
    \A f \in txFrames : f[2] = ((BlockIndex - 1) % 255) + 1 /\ f[2] # 0

\* C2 (amended): the sequence number of the first block is 1 and that of
\* block k is k mod 256, so the block after the one numbered 255 is
\* numbered 0 and the one after that 1.
C2_WrapsMod256 ==
    \A f \in txFrames : f[2] = BlockIndex % 256

C2_Witness ==
    /\ pc = "recv"
    /\ BlockIndex = 257
    /\ \E f \in txFrames : f[2] = 1

\* C3: every transmitted frame has 132 bytes: SOH, the sequence number,
\* its complement mod 256, 128 payload bytes, one checksum byte.
C3_FrameLayout ==
    \A f \in txFrames :
        /\ Len(f) = BlockSize
        /\ f[1] = SOH
        /\ f[2] = block.pnum
        /\ f[3] = 255 - f[2]

\* C4: the checksum byte of a block made by kwboot_xm_makeblock is the sum
\* modulo 256 of the 128 payload bytes of the zero-padded block.
C4_Checksum ==
    /\ block.csum = PlainSum(block.data, 1, blksz) % 256
    /\ \A f \in txFrames :
           f[BlockSize] = PlainSum(Payload(f), 1, blksz) % 256

C4_Witness ==
    /\ pc = "send"
    /\ n = blksz - 1
    /\ image.pat = 0
    /\ block.csum # 0
    /\ PlainSum(block.data, 1, blksz) > 255

\* C5: all transmissions of one block are the same frame, and a frame with
\* a new sequence number is transmitted only if the reply to the previous
\* transmitted frame was ACK.
C5_RetransmitIdentical ==
    /\ [](Cardinality(txFrames) <= 1)
    /\ [][(pc = "send" /\ pc' = "recv" /\ nsent = 0 /\ link # "idle")
             => lastReply = ACK]_vars

\* C6: a frame is transmitted only when the previous transmission has
\* received its reply byte, and the first transmission of a block only
\* when that reply was ACK.
C6_LockStep ==
    [][(pc = "send" /\ pc' = "recv") =>
          /\ link # "awaiting"
          /\ (nsent = 0 /\ link = "answered") => lastReply = ACK]_vars

\* C7 (as claimed): a block whose every transmission is answered NAK is
\* transmitted exactly 16 times and the transfer aborts with EBADMSG.
C7_SixteenTransmissions ==
    (pc = "done" /\ fault = "none" /\ lastReply = NAK)
        => (nsent = 16 /\ rc = -1 /\ errno = "EBADMSG")

\* C7 (amended): a block whose every transmission is answered NAK is
\* transmitted exactly 17 times (once and 16 retries) and the transfer then
\* aborts with EBADMSG, whatever earlier blocks received; no block is
\* transmitted more than 17 times.
C7_RetryBudget ==
    /\ nsent <= 17
    /\ (pc = "done" /\ fault = "none" /\ lastReply = NAK)
           => (nsent = 17 /\ rc = -1 /\ errno = "EBADMSG")

C7_Witness ==
    /\ pc = "done"
    /\ fault = "none"
    /\ lastReply = NAK
    /\ nsent = 17
    /\ BlockIndex = 3
    /\ earlierNak

\* C8: a transfer that aborts because a block ran out of retries or
\* because of an unexpected reply byte has sent exactly one CAN byte.
C8_CancelOnAbort ==
    (pc = "done" /\ fault = "none" /\ lastReply \in OtherReplies \cup {NAK})
        => sentCAN = 1

\* C9: once the target has replied CAN the transfer is over with rc = -1
\* and errno ECANCELED, and nothing more is sent: no block, no EOT, no CAN.
C9_TargetCancel ==
    /\ [](lastReply = CAN =>
            /\ pc = "done"
            /\ rc = -1
            /\ errno = "ECANCELED"
            /\ sentEOT = 0
            /\ sentCAN = 0)
    /\ [][lastReply # CAN]_vars

C9_Witness ==
    /\ lastReply = CAN
    /\ pc = "done"
    /\ BlockIndex = 2
    /\ nsent = 2

\* C10: after an unexpected reply byte or a failed send or receive of a
\* block the transfer is over with errno EPROTO.
C10_ProtocolError ==
    /\ fault \in {"send", "recv"} => (pc = "done" /\ errno = "EPROTO")
    /\ lastReply \in OtherReplies => (pc = "done" /\ errno = "EPROTO")

(* C12: kwboot_bootmsg returns 0 only when the attempt just made read one  *)
(* reply byte and that byte is NAK; an attempt whose reply wait fails or   *)
(* reads another byte is followed by a further attempt; a handshake whose  *)
(* first attempt reads NAK has sent one wake pattern and never slept.      *)
C12_Handshake ==
    /\ [](bpc = "done" /\ brc = 0 => bres = "byte" /\ bc = NAK)
    /\ [][bpc = "recv" /\ ~(bres' = "byte" /\ bc' = NAK)
            => bpc' = "flush" /\ attempts' = attempts + 1]_vars
    /\ [](bpc = "done" /\ brc = 0 /\ attempts = 1
            => bsent = 1 /\ delays = 0)

\* the handshake succeeded on a later attempt, after a failed send
C12_Witness ==
    /\ bpc = "done"
    /\ brc = 0
    /\ bc = NAK
    /\ attempts > 1
    /\ delays > 0

(* C13: in the handshake a failed tcflush and a failed (not timed out)     *)
(* read of the reply byte both end the loop of kwboot_bootmsg, which then  *)
(* returns non-zero.                                                       *)
C13_IoErrorEndsHandshake ==
    [][(bres' \in {"flushfail", "error"} /\ bpc \in {"flush", "recv"})
        => bpc' = "done" /\ brc' # 0]_vars

(* C18: every kwboot_tty_send of the wake pattern comes after exactly one  *)
(* tcflush made since the send before it, that tcflush returned 0, the     *)
(* bytes sent are the 8 bytes of the pattern, and after a failed tcflush   *)
(* nothing more is sent.                                                   *)
C18_DiscardBeforeWake ==
    /\ [](bpc = "send" => flushed = 1 /\ brc = 0)
    /\ [](bsent > 0 => bwire = msg /\ Len(bwire) = 8)
    /\ [][bres = "flushfail" => bsent' = bsent]_vars
    /\ [](bres = "flushfail" => bpc = "done" /\ brc # 0)

\* a wake pattern is about to be sent in an attempt that follows a failed
\* send and a timed out attempt
C18_Witness ==
    /\ bpc = "send"
    /\ attempts = 3
    /\ flushed = 1
    /\ delays = 1
    /\ bsent = 1

(* C11: at most one EOT is sent; it is sent only when every block of the   *)
(* source has been passed and each of them was answered with ACK; nothing  *)
(* is sent after it; kwboot_xmodem returns 0 exactly when the EOT was sent *)
(* without error, and a transfer that failed has sent none.                *)
C11_EotAfterAllAcked ==
    /\ [](sentEOT <= 1)
    /\ [](sentEOT = 1 => /\ pc = "done"
                         /\ data = image.size
                         /\ ~unacked)
    /\ [](pc = "done" => (rc = 0 <=> sentEOT = 1))
    /\ [][sentEOT = 1 => nsent' = nsent /\ sentCAN' = sentCAN]_vars

(* C20: kwboot_xm_sendblock returns 0 only from the receive of the reply   *)
(* to the latest transmission of the block, that transmission having been  *)
(* sent without error and the reply read being ACK; and when the send or   *)
(* the receive of the latest transmission failed, the call reports that    *)
(* failure rather than the meaning of some reply byte.                     *)
C20_DecidedByLatestReply ==
    /\ [][data' # data
            => /\ pc = "recv"
               /\ fault' = "none"
               /\ link' = "answered"
               /\ lastReply' = ACK]_vars
    /\ [][(fault' \in {"send", "recv"} /\ pc \in {"send", "recv"})
            => rc' = -1 /\ errno' = "EIO"]_vars

ChecksumMatches(h) ==
    h[bhr.checkSum] = PlainSum(h, 1, hdrsz - 1) % 256

(* C16: kwboot_img_patch_hdr on a header whose stored checksum does not    *)
(* match returns an error and changes no byte; on a matching header that   *)
(* carries the UART tag it returns 0 and changes no byte; on any other     *)
(* matching header it returns 0 and leaves a header whose stored checksum  *)
(* matches again, so that a second call returns 0 and changes nothing.     *)
C16_PatchChecksum ==
    (Len(hrcs) >= 1 /\ Len(orig) >= hdrsz) =>
        /\ ~ChecksumMatches(orig) => hrcs[1] # 0 /\ after1 = orig
        /\ (ChecksumMatches(orig) /\ orig[bhr.blockid] = IBR_HDR_UART_ID)
            => hrcs[1] = 0 /\ after1 = orig
        /\ (ChecksumMatches(orig) /\ orig[bhr.blockid] # IBR_HDR_UART_ID)
            => /\ hrcs[1] = 0
               /\ after1[bhr.blockid] = IBR_HDR_UART_ID
               /\ ChecksumMatches(after1)
               /\ Len(hrcs) >= 2 => hrcs[2] = 0 /\ hdr = after1

\* a NAND header with a matching checksum has been patched twice
C16_Witness ==
    /\ Len(hrcs) = 2
    /\ Len(orig) = hdrsz
    /\ ChecksumMatches(orig)
    /\ orig[bhr.blockid] = IBR_HDR_NAND_ID
    /\ orig[bhr.ext] = 1
    /\ after1 # orig
    /\ hrcs = <<0, 0>>

(* C19: however the operator's input is split into reads, the relay has   *)
(* left its loop through the escape sequence exactly when the byte 0x1C    *)
(* directly followed by 'c' has occurred in the bytes read from the        *)
(* operator; and the match counter s is the one obtained by going one up   *)
(* on each byte read that equals the escape byte expected next and back to *)
(* 0 on each other byte.                                                   *)
C19_EscapeDetection ==
    /\ (tpc = "quit") <=> seen
    /\ tpc \in {"loop", "quit", "error"} => qs = matched

\* stage name s was run; with which outcome
Ran(s) == \E i \in 1..Len(stages) : stages[i].stage = s

Succeeded(s) ==
    \E i \in 1..Len(stages) : stages[i].stage = s /\ stages[i].rc = 0

\* entry e of the stage log is a failure that counts: any non-zero return,
\* except terminal mode ended by an interrupt
CountsAsFailure(e) ==
    e.rc # 0 /\ ~(e.stage = "terminal" /\ e.errno = "EINTR")

(* C14: no stage is run after a stage that failed, so no transfer after a  *)
(* failed handshake or patch and no terminal mode after a failed transfer; *)
(* main returns 0 only if every stage asked for was run and succeeded      *)
(* (terminal mode may have ended by an interrupt), and returns non-zero    *)
(* when a stage failed.                                                    *)
C14_FailureAborts ==
    /\ \A i \in 1..Len(stages) :
        CountsAsFailure(stages[i]) => i = Len(stages) /\ mpc = "exit"
    /\ (mpc = "exit" /\ rv = 0) =>
        /\ Succeeded("open")
        /\ opt.bootmsg # "none" => Succeeded("bootmsg")
        /\ opt.patch => Succeeded("patch")
        /\ opt.imgpath => Succeeded("mmap") /\ Succeeded("xmodem")
        /\ opt.term => Ran("terminal")
        /\ \A i \in 1..Len(stages) : ~CountsAsFailure(stages[i])
    /\ mpc = "exit" => (rv = 0 \/ rv = 1)
    /\ (mpc = "exit" /\ \E i \in 1..Len(stages) : CountsAsFailure(stages[i]))
        => rv = 1

\* main went to out: after the transfer failed, with a patched image and a
\* completed handshake, terminal mode being asked for
C14_Witness ==
    /\ mpc = "exit"
    /\ rv = 1
    /\ opt.term
    /\ Succeeded("patch")
    /\ Succeeded("bootmsg")
    /\ Ran("xmodem")
    /\ ~Succeeded("xmodem")
    /\ ~Ran("terminal")

\* the place of a stage in the order the stages are said to occur in
ClaimedRank(s) ==
    CASE s = "open" -> 1
      [] s = "mmap" -> 1
      [] s = "bootmsg" -> 2
      [] s = "patch" -> 3
      [] s = "xmodem" -> 4
      [] s = "terminal" -> 5

\* the place of a stage in the order of the calls in main
CodeRank(s) ==
    CASE s = "open" -> 1
      [] s = "mmap" -> 2
      [] s = "patch" -> 3
      [] s = "bootmsg" -> 4
      [] s = "xmodem" -> 5
      [] s = "terminal" -> 6

(* C15 as stated: the stages run in the order channel configuration,       *)
(* handshake, header patch, block transfer, terminal relay; the header     *)
(* patch is run only after a handshake that succeeded and before the       *)
(* transfer.                                                               *)
C15_HandshakeBeforePatch ==
    /\ \A i, j \in 1..Len(stages) :
        i < j => ClaimedRank(stages[i].stage) <= ClaimedRank(stages[j].stage)
    /\ (Ran("patch") /\ opt.bootmsg # "none") => Succeeded("bootmsg")

(* C15 amended: the stages run in the order channel configuration, image   *)
(* mapping, header patch, handshake, block transfer, terminal relay; the   *)
(* header patch is run before the handshake and before the transfer, and   *)
(* the handshake is run only after a patch that was asked for succeeded.   *)
C15_PatchBeforeHandshake ==
    /\ \A i, j \in 1..Len(stages) :
        i < j => CodeRank(stages[i].stage) < CodeRank(stages[j].stage)
    /\ (Ran("bootmsg") /\ opt.patch) => Succeeded("patch")
    /\ (Ran("xmodem") /\ opt.patch) => Succeeded("patch")
    /\ (Ran("xmodem") /\ opt.bootmsg # "none") => Succeeded("bootmsg")

\* the handshake is running after the header was patched
C15_Witness ==
    /\ mpc = "bootmsg"
    /\ opt.patch
    /\ Succeeded("patch")
    /\ ~Ran("xmodem")

====
